---- MODULE Spec2Model ----
(***************************************************************************)
(* FastBoard: the WebSocket connection registry, the inbound message       *)
(* pipeline and the board log (app/services/connection_manager.py,         *)
(* app/api/websocket.py, app/models/schemas.py).                           *)
(*                                                                         *)
(* The program runs on one asyncio event loop.  A coroutine runs without   *)
(* interruption until it awaits the transport (websocket.accept,           *)
(* websocket.receive_text, websocket.send_text); only there can another    *)
(* connection's handler run.  Every action below is one such uninterrupted *)
(* run of one handler: from the point where an await returns to the next   *)
(* await of the transport.  A send_text hands its frame to the transport   *)
(* when it is called (frames of one websocket leave in call order) and     *)
(* then suspends the caller.                                               *)
(***************************************************************************)
EXTENDS Integers, Sequences, FiniteSets, TLC

\* ------------------------------------------------------------- bounds
\* Spec: three connections racing, one inbound frame, one fault (a transport
\* that fails under the server, or a client that closes its websocket).
LiveConns == 3
LiveFrames == 1
LiveFaults == 1
\* SpecSeq: two connections, three inbound frames, no transport failure (a
\* client may close).
SeqConns == 2
SeqFrames == 3
\* SpecVal: two connections, one inbound frame of any shape, one transport
\* failure.
ValConns == 2
ValFrames == 1
ValBreaks == 1
\* SpecErr: two connections, two inbound frames, valid, rejected or of a
\* server-only type, one transport failure.
ErrConns == 2
ErrFrames == 2
ErrBreaks == 1
\* SpecIdle: two connections, one inbound frame, one fault, and a clock that
\* runs for two ticks.
IdleConns == 2
IdleFrames == 1
IdleFaults == 1
IdleTicks == 2
\* The inactivity threshold of the sweep, in ticks.
IdleThreshold == 1
\* SpecSweep: two connections, one inbound frame, one fault, a clock that runs
\* for two ticks and one call of cleanup_inactive_connections(SweepTimeout).
SweepConns == 2
SweepFrames == 1
SweepFaults == 1
SweepTicks == 2
SweepTimeout == 1
\* SpecRate: a rate limiter built as RateLimiter(max_requests, window_seconds),
\* checked for two identifiers in five calls while the clock runs for five ticks.
max_requests == 2
window_seconds == 2
RateIds == 2
RateCalls == 5
RateTicks == 5
\* SpecHttp: three HTTP requests (ai-assist or health) while the clock runs for
\* one tick, with the rate limiter above.
HttpCalls == 3
HttpTicks == 1
\* SpecRecv: two connections, one inbound frame and one transport that fails,
\* under a send or under receive_text.
RecvConns == 2
RecvFrames == 1
RecvFaults == 1
\* SpecChainFair: two connections, one inbound frame, and up to two transports
\* that fail (every send of a broadcast may raise).
ChainConns == 2
ChainFrames == 1
ChainFaults == 2
\* SpecApi: two connections and one call of send_personal_message; one inbound
\* frame, one transport failure and one client that closes.
ApiConns == 2
ApiFrames == 1
ApiBreaks == 1
ApiCloses == 1
\* The client ids the URLs carry.
NumIds == 3

\* ---------------------------------------------------------- constants
None == 0
Server == -1
max_stroke_points == 1000
MaxTextLen == 1000
MinSize == 1
MaxSize == 100
CoordLimit == 10000

ClientIds == 1..NumIds

MessageType == {"draw", "text", "clear", "cursor", "user_count", "board_state", "error"}
ToolType == {"pen", "eraser"}

Min(S) == CHOOSE x \in S : \A y \in S : x <= y

\* ------------------------------------------------- dict (insertion ordered)
\* A CPython dict: an array of entries in insertion order; a deleted key
\* leaves a dummy entry, a new key is appended, an existing key's value is
\* replaced in place.  (No resize: the array holds 5 entries before the
\* first resize and a run inserts at most one key per connection.)
DictLen(d) == Cardinality({i \in DOMAIN d : d[i].k # None})
DictHas(d, k) == \E i \in DOMAIN d : d[i].k = k
DictIndex(d, k) == CHOOSE i \in DOMAIN d : d[i].k = k
DictGet(d, k) == d[DictIndex(d, k)].v
DictKeys(d) == {d[i].k : i \in DOMAIN d} \ {None}
DictSet(d, k, v) ==
    IF DictHas(d, k) THEN [d EXCEPT ![DictIndex(d, k)].v = v]
    ELSE Append(d, [k |-> k, v |-> v])
DictDel(d, k) ==
    IF DictHas(d, k) THEN [d EXCEPT ![DictIndex(d, k)] = [k |-> None, v |-> None]]
    ELSE d

\* dict.items() iterator: the size at creation, the items still expected,
\* the index of the last entry visited.
NewIter(d) == [pos |-> 0, len |-> DictLen(d), used |-> DictLen(d)]
IterNext(d, it) ==
    IF it.used # DictLen(d) THEN [st |-> "error", i |-> 0]
    ELSE LET rest == {i \in DOMAIN d : i > it.pos /\ d[i].k # None} IN
         IF rest = {} THEN [st |-> "stop", i |-> 0]
         ELSE IF it.len = 0 THEN [st |-> "error", i |-> 0]
         ELSE [st |-> "item", i |-> Min(rest)]

\* ------------------------------------------------------------ messages
Msg(t, from, mid, n, acts, code) ==
    [type |-> t, client_id |-> from, mid |-> mid, count |-> n,
     actions |-> acts, code |-> code]
UserCountMsg(n) == Msg("user_count", Server, 0, n, <<>>, "")
BoardStateMsg(log) == Msg("board_state", Server, 0, 0, log, "")
\* _send_error_message with its error_code argument ignored.
ErrorMsg_processing(code) == Msg("error", Server, 0, 0, <<>>, "PROCESSING_ERROR")
ErrorMsg(code) == Msg("error", Server, 0, 0, <<>>, code)

\* ------------------------------------------------ inbound frames, schemas
\* A frame as the client sent it.  shape: what json.loads and the key checks
\* find; payload: absent, a scalar, or an object with the keys it holds.  The
\* points of a stroke are kept as their number and the range of their
\* coordinates, a text content as its length, a colour as its characters.
HexDigits == {"0", "1", "2", "3", "4", "5", "6", "7", "8", "9",
              "a", "b", "c", "d", "e", "f", "A", "B", "C", "D", "E", "F"}
HexColorMatch(c) ==
    /\ Len(c) = 7
    /\ c[1] = "#"
    /\ \A i \in 2..7 : c[i] \in HexDigits

Payload(kind, keys, tool, color, size, npoints, lo, hi, clen) ==
    [kind |-> kind, keys |-> keys, tool |-> tool, color |-> color, size |-> size,
     npoints |-> npoints, lo |-> lo, hi |-> hi, content_len |-> clen]

PointValid(v) == -CoordLimit <= v /\ v <= CoordLimit
DrawPayloadValid(p) ==
    /\ p.kind = "object"
    /\ {"tool", "color", "size", "points"} \subseteq p.keys
    /\ p.tool \in ToolType
    /\ HexColorMatch(p.color)
    /\ MinSize <= p.size /\ p.size <= MaxSize
    /\ p.npoints >= 1
    /\ PointValid(p.lo) /\ PointValid(p.hi)
    /\ p.npoints <= max_stroke_points
TextPayloadValid(p) ==
    /\ p.kind = "object"
    /\ {"content", "x", "y", "color"} \subseteq p.keys
    /\ p.content_len <= MaxTextLen
    /\ HexColorMatch(p.color)
CursorPayloadValid(p) == p.kind = "object" /\ {"x", "y"} \subseteq p.keys
UserCountPayloadValid(p) == p.kind = "object" /\ "count" \in p.keys
BoardStatePayloadValid(p) == p.kind = "object" /\ "actions" \notin p.keys
ErrorPayloadValid(p) == p.kind = "object" /\ "message" \in p.keys
DictStrAnyValid(p) == p.kind = "object"

\* WebSocketMessage.payload: Optional[Union[...]]: None, or any one member.
PayloadFieldValid(p) ==
    \/ p.kind = "absent"
    \/ DrawPayloadValid(p)
    \/ TextPayloadValid(p)
    \/ CursorPayloadValid(p)
    \/ UserCountPayloadValid(p)
    \/ BoardStatePayloadValid(p)
    \/ ErrorPayloadValid(p)
    \/ DictStrAnyValid(p)

WebSocketMessageValid(f) == f.type \in MessageType /\ PayloadFieldValid(f.payload)

\* The constraints section 3 of the design puts on a persistent action.
SchemaConforms(f) ==
    CASE f.type = "draw" -> DrawPayloadValid(f.payload)
      [] f.type = "text" -> TextPayloadValid(f.payload)
      [] OTHER -> TRUE

Color112233 == <<"#", "1", "1", "2", "2", "3", "3">>
ColorRed == <<"r", "e", "d">>
DrawKeys == {"tool", "color", "size", "points"}
TextKeys == {"content", "x", "y", "font", "color"}
NoPayload == Payload("absent", {}, "", <<>>, 0, 0, 0, 0, 0)
ScalarPayload == Payload("scalar", {}, "", <<>>, 0, 0, 0, 0, 0)
EmptyObject == Payload("object", {}, "", <<>>, 0, 0, 0, 0, 0)
GoodDraw == Payload("object", DrawKeys, "pen", Color112233, 4, 3, 0, 10, 0)
GoodText == Payload("object", TextKeys, "", Color112233, 0, 0, 0, 0, 5)
CursorXY == Payload("object", {"x", "y"}, "", <<>>, 0, 0, 0, 0, 0)

\* mid numbers the frames in the order the server received them.
Frame(shape, t, id, p, mid) ==
    [shape |-> shape, type |-> t, clientId |-> id, payload |-> p, mid |-> mid]

\* add_to_board_state
\* add_to_board_state with the type test of line 192 narrowed to DRAW: a text
\* action is not appended.
add_to_board_state_draw_only(log, action) ==
    IF action.type = "clear" THEN <<>>
    ELSE IF action.type = "draw" THEN Append(log, action)
    ELSE log
\* add_to_board_state with insert(0, action) for append(action): the newest
\* action comes first.
add_to_board_state_prepend(log, action) ==
    IF action.type = "clear" THEN <<>>
    ELSE IF action.type \in {"draw", "text"} THEN <<action>> \o log
    ELSE log
add_to_board_state(log, action) ==
    IF action.type = "clear" THEN <<>>
    ELSE IF action.type \in {"draw", "text"} THEN Append(log, action)
    ELSE log

\* _process_incoming_message without lines 128-130: the clientId of the frame
\* is not compared with the connection's.
ProcessError_any_client_id(f, client_id) ==
    IF f.shape = "json_bad" THEN "Invalid JSON format"
    ELSE IF f.shape = "not_object" THEN "Message must be a JSON object"
    ELSE IF f.shape = "no_type" THEN "Message type is required"
    ELSE IF f.shape = "no_client_id" THEN "Client ID is required"
    ELSE IF ~WebSocketMessageValid(f) THEN "Message validation failed"
    ELSE ""
\* _process_incoming_message: the error it raises, or "" when it returns
\* the validated message.
ProcessError(f, client_id) ==
    IF f.shape = "json_bad" THEN "Invalid JSON format"
    ELSE IF f.shape = "not_object" THEN "Message must be a JSON object"
    ELSE IF f.shape = "no_type" THEN "Message type is required"
    ELSE IF f.shape = "no_client_id" THEN "Client ID is required"
    ELSE IF f.clientId # client_id THEN "Client ID mismatch"
    ELSE IF ~WebSocketMessageValid(f) THEN "Message validation failed"
    ELSE ""
\* _process_incoming_message without lines 139-140: a clear is validated and
\* returned but never handed to add_to_board_state.
ProcessLog_keep_on_clear(log, f, client_id) ==
    IF ProcessError(f, client_id) # "" THEN log
    ELSE IF f.type \in {"draw", "text"} THEN add_to_board_state(log, f)
    ELSE log
ProcessLog(log, f, client_id) ==
    IF ProcessError(f, client_id) # "" THEN log
    ELSE IF f.type \in {"draw", "text"} THEN add_to_board_state(log, f)
    ELSE IF f.type = "clear" THEN add_to_board_state(log, f)
    ELSE log

\* ---------------------------------------------------------------- state
VARIABLES
    active_connections,  \* ConnectionManager._active_connections: client id -> websocket
    connection_info,     \* ConnectionManager._connection_info: client id -> ConnectionInfo
    client_activity,     \* ConnectionManager._client_activity: client id -> time of last activity
    board_state,         \* ConnectionManager._board_state
    pc,                  \* where each connection's websocket_endpoint call stands
    cid,                 \* the client_id of each connection's URL
    cont,                \* which call of the handler the running broadcast belongs to
    stack,               \* the broadcast calls a handler is inside, outermost first
    inbox,               \* the frames each websocket's client has received
    broken,              \* websockets whose transport no longer carries frames
    nframes,             \* inbound frames received so far
    nbreaks,             \* transports that failed under the server so far
    ncloses,             \* websockets their client has closed so far
    budget,              \* what the clients of this run may do: frames, faults, frame kinds
    live,                \* history: connections registered and not yet deregistered
    reg_log,             \* history: the board log when each connection registered
    reg_at,              \* history: the frames received before it registered (-1: never)
    received,            \* history: every inbound frame, its connection, its rejection
    send_failed,         \* history: some send_text has raised
    connected,           \* history: connections whose connect() returned
    uc_from,             \* history: connections whose connect() called broadcast_user_count
    reg_count,           \* history: the registry's size just after each connection registered
    uc_count,            \* history: the count in the user_count each connect() broadcast
    dispatched,          \* history: draw/text messages given to broadcast since the last clear
    crashed,             \* history: handlers ended by an exception out of their finally
    returns,             \* history: the broadcast calls that returned in the latest step
    call,                \* the send_personal_message call: its target, its send, its result
    now,                 \* time.time()
    iter_errors,         \* history: handlers whose broadcast loop raised out of its for statement
    sweep,               \* the cleanup_inactive_connections call: its list, its result
    requests,            \* RateLimiter.requests: identifier -> admitted timestamps
    verdicts,            \* history: the is_allowed calls, their time and result
    http,                \* the HTTP requests: where each stands, its response
    ai_client            \* AIService._client is not None

vars == <<active_connections, connection_info, client_activity, board_state, pc, cid,
          cont, stack, inbox, broken, nframes, nbreaks, ncloses, budget, live, reg_log,
          reg_at, received, send_failed, connected, uc_from, reg_count, uc_count, dispatched, crashed, returns,
          call, now, iter_errors, sweep, requests, verdicts, http, ai_client>>

\* What the websocket handlers never write: the clock, the sweep's call, the
\* rate limiter and the HTTP endpoints.
env == <<now, sweep, requests, verdicts, http, ai_client>>
\* The connection manager, the websocket handlers and their transports.
manager == <<active_connections, connection_info, client_activity, board_state, pc, cid,
             cont, stack, inbox, broken, nframes, nbreaks, ncloses, budget, live, reg_log,
             reg_at, received, send_failed, connected, uc_from, reg_count, uc_count,
             dispatched, crashed, returns, call, iter_errors>>

\* The websockets, one per connection; pc, cont and stack also have an entry for
\* the task that calls send_personal_message, where there is one.
Conns == DOMAIN inbox
Task == 0

\* ------------------------------------------------- the connection manager
\* The manager's tables, the transport and the running handler's broadcast
\* calls, threaded through the code of one uninterrupted run.  out: whether
\* the run ended in an await of a send ("suspended"), returned to the
\* handler ("returned") or raised out of broadcast ("raised").
World(h) ==
    [ac |-> active_connections, info |-> connection_info, act |-> client_activity,
     inbox |-> inbox, broken |-> broken, live |-> live, stack |-> stack[h],
     failed |-> send_failed, out |-> "returned", rets |-> {}, now |-> now, err |-> FALSE]

Direct == [how |-> "direct", excl |-> None]
Fanout(excl) == [how |-> "broadcast", excl |-> excl]

\* websocket.send_text: the frame reaches the client unless the transport is
\* (or now turns out to be) broken.
Delivered(w, ws, ok) == ok /\ ~w.broken[ws]
Transmit(w, ws, m, via, ok) ==
    IF Delivered(w, ws, ok)
    THEN [w EXCEPT !.inbox[ws] = Append(@, [msg |-> m, via |-> via])]
    ELSE [w EXCEPT !.broken[ws] = TRUE, !.failed = TRUE]

\* _update_client_activity
UpdateClientActivity(w, client_id) ==
    [w EXCEPT !.act = DictSet(@, client_id, w.now),
              !.info = IF client_id \in DOMAIN @
                       THEN [@ EXCEPT ![client_id].last_activity = w.now]
                       ELSE @]

\* disconnect, lines 87-101
Deregister(w, client_id) ==
    [w EXCEPT !.ac = DictDel(@, client_id),
              !.info = [k \in (DOMAIN @) \ {client_id} |-> @[k]],
              !.act = DictDel(@, client_id),
              !.live = {c \in @ : cid[c] # client_id}]

\* broadcast, line 151: the entries the loop skips
\* broadcast without the test of line 151.
Excluded_never(exclude_client, client_id) == FALSE
Excluded(exclude_client, client_id) == exclude_client # None /\ client_id = exclude_client

\* The for statement of broadcast: the next entry the loop body sends to.
RECURSIVE Advance(_, _, _)
Advance(d, it, excl) ==
    LET r == IterNext(d, it) IN
    IF r.st # "item" THEN [st |-> r.st, i |-> 0, it |-> it]
    ELSE LET it1 == [it EXCEPT !.pos = r.i, !.len = @ - 1] IN
         IF Excluded(excl, d[r.i].k) THEN Advance(d, it1, excl)
         ELSE [st |-> "item", i |-> r.i, it |-> it1]

Top(w) == w.stack[Len(w.stack)]
Registered(d) == {d[i].v : i \in {j \in DOMAIN d : d[j].k # None}}
\* broadcast, line 169 (and line 144): the call returns value; for the record,
\* what it had sent and which websockets were registered at that point.
Returned(w, value, f) ==
    [w EXCEPT !.rets = @ \cup {[value |-> value, hits |-> f.hits, tried |-> f.tried,
                                dead |-> f.dead, reg |-> Registered(w.ac)]}]
Pop(w) == [Returned(w, Top(w).sends, Top(w)) EXCEPT !.stack = SubSeq(@, 1, Len(@) - 1)]
NoSends == [hits |-> 0, tried |-> <<>>, dead |-> {}]

RECURSIVE RunBroadcast(_, _)
RECURSIVE Cleanup(_, _)
RECURSIVE BroadcastBegin(_, _, _, _)

\* broadcast, lines 150-160: from the for statement to the await of the send.
RunBroadcast(w, ok) ==
    LET f == Top(w)
        r == Advance(w.ac, f.it, f.excl) IN
    IF r.st = "item" THEN
        LET e == w.ac[r.i]
            w1 == Transmit(w, e.v, f.msg, Fanout(f.excl), ok) IN
        [w1 EXCEPT !.stack[Len(w.stack)] =
                       [f EXCEPT !.it = r.it, !.cur = e.k, !.ok = Delivered(w, e.v, ok),
                                 !.tried = Append(@, e.v),
                                 !.hits = IF Delivered(w, e.v, ok) THEN @ + 1 ELSE @,
                                 !.dead = IF Delivered(w, e.v, ok) THEN @ ELSE @ \cup {e.v}],
                   !.out = "suspended"]
    ELSE IF r.st = "stop" THEN Cleanup(w, ok)
    ELSE [w EXCEPT !.stack = <<>>, !.out = "raised", !.err = TRUE]

\* broadcast without lines 163-164: the failed clients are left registered.
Cleanup_forget(w, ok) ==
    IF Len(w.stack) = 1 THEN [Pop(w) EXCEPT !.out = "returned"]
    ELSE Cleanup(Pop(w), ok)
\* broadcast, lines 163-169: _handle_connection_error for each failed client,
\* then the return to the caller (the handler, or the disconnect that an
\* enclosing broadcast's clean-up called).
Cleanup(w, ok) ==
    LET f == Top(w) IN
    IF f.failed = <<>> THEN
        IF Len(w.stack) = 1 THEN [Pop(w) EXCEPT !.out = "returned"]
        ELSE Cleanup(Pop(w), ok)
    ELSE
        LET w1 == [w EXCEPT !.stack[Len(w.stack)].failed = Tail(f.failed)]
            w2 == Deregister(w1, Head(f.failed)) IN
        BroadcastBegin(w2, UserCountMsg(DictLen(w2.ac)), None, ok)

\* broadcast, lines 143-148
BroadcastBegin(w, m, excl, ok) ==
    IF DictLen(w.ac) = 0 THEN
        IF w.stack = <<>> THEN [Returned(w, 0, NoSends) EXCEPT !.out = "returned"]
        ELSE Cleanup(Returned(w, 0, NoSends), ok)
    ELSE
        RunBroadcast(
            [w EXCEPT !.stack = Append(@, [msg |-> m, excl |-> excl, it |-> NewIter(w.ac),
                                           cur |-> None, ok |-> TRUE, failed |-> <<>>,
                                           sends |-> 0, hits |-> 0, tried |-> <<>>,
                                           dead |-> {}])],
            ok)

\* broadcast with line 157 moved out of the try: successful_sends counts every
\* send, raised or not.
AfterSend_count_all(w) ==
    LET f == Top(w)
        w1 == [w EXCEPT !.stack[Len(w.stack)].sends = @ + 1] IN
    IF f.ok THEN UpdateClientActivity(w1, f.cur)
    ELSE [w1 EXCEPT !.stack[Len(w.stack)].failed = Append(f.failed, f.cur)]
\* broadcast with a break in the except clause of lines 158-160: the loop ends
\* at the first send that raises.
AfterSend_break(w) ==
    LET f == Top(w) IN
    IF f.ok THEN [UpdateClientActivity(w, f.cur) EXCEPT !.stack[Len(w.stack)].sends = @ + 1]
    ELSE [w EXCEPT !.stack[Len(w.stack)].failed = Append(f.failed, f.cur),
                   !.stack[Len(w.stack)].it.pos = Len(w.ac)]
\* broadcast, lines 154-160 after the await of the send returns or raises.
AfterSend(w) ==
    LET f == Top(w) IN
    IF f.ok THEN [UpdateClientActivity(w, f.cur) EXCEPT !.stack[Len(w.stack)].sends = @ + 1]
    ELSE [w EXCEPT !.stack[Len(w.stack)].failed = Append(f.failed, f.cur)]

\* broadcast_user_count
BroadcastUserCount(w, ok) == BroadcastBegin(w, UserCountMsg(DictLen(w.ac)), None, ok)

\* disconnect
Disconnect(w, client_id, ok) == BroadcastUserCount(Deregister(w, client_id), ok)

\* ------------------------------------------------------ websocket_endpoint
Outcome(w, p, c, conn, crash) == [w |-> w, pc |-> p, cont |-> c, conn |-> conn, crash |-> crash]

\* websocket_endpoint, lines 89-91: the finally clause.
Final(h, w, ok) ==
    LET w1 == Disconnect(w, cid[h], ok) IN
    IF w1.out = "suspended" THEN Outcome(w1, "bcast", "final", FALSE, FALSE)
    ELSE Outcome(w1, "done", "none", FALSE, FALSE)

\* Where the handler goes when the broadcast it called (from connect, from its
\* receive loop, from its finally clause) suspends, returns or raises.
After(h, w, c, ok) ==
    IF w.out = "suspended" THEN Outcome(w, "bcast", c, FALSE, FALSE)
    ELSE IF w.out = "returned" THEN
        IF c \in {"final", "personal"} THEN Outcome(w, "done", "none", FALSE, FALSE)
        ELSE Outcome(w, "recv", "none", c = "connect", FALSE)
    ELSE IF c = "connect" THEN Final(h, w, ok)
    ELSE IF c = "loop" THEN
        Outcome(Transmit(w, h, ErrorMsg("PROCESSING_ERROR"), Direct, ok),
                "err", "none", FALSE, FALSE)
    ELSE Outcome(w, "done", "none", FALSE, TRUE)

\* closing: the websockets whose client closed them in this step.
Commit(h, r, closing) ==
    /\ active_connections' = r.w.ac
    /\ connection_info' = r.w.info
    /\ client_activity' = r.w.act
    /\ inbox' = r.w.inbox
    /\ broken' = r.w.broken
    /\ nbreaks' = nbreaks + Cardinality({c \in Conns \ closing : r.w.broken[c] /\ ~broken[c]})
    /\ nbreaks' <= budget.breaks
    /\ nbreaks' + ncloses <= budget.faults
    /\ live' = r.w.live
    /\ send_failed' = r.w.failed
    /\ stack' = [stack EXCEPT ![h] = r.w.stack]
    /\ pc' = [pc EXCEPT ![h] = r.pc]
    /\ cont' = [cont EXCEPT ![h] = r.cont]
    /\ connected' = IF r.conn THEN connected \cup {h} ELSE connected
    /\ crashed' = IF r.crash THEN crashed \cup {h} ELSE crashed
    /\ returns' = r.w.rets
    /\ iter_errors' = IF r.w.err THEN iter_errors \cup {h} ELSE iter_errors

\* connect, lines 54-62
Register(w, h) ==
    [w EXCEPT !.ac = DictSet(@, cid[h], h),
              !.info = [k \in (DOMAIN @) \cup {cid[h]} |->
                            IF k = cid[h]
                            THEN [client_id |-> cid[h], connected_at |-> w.now,
                                  last_activity |-> w.now, ip_address |-> h]
                            ELSE @[k]],
              !.act = DictSet(@, cid[h], w.now),
              !.live = @ \cup {h}]

\* connect without lines 70-71: the board state is never sent.
ConnectTail_no_snapshot(h, w, ok) ==
    After(h, BroadcastUserCount(w, ok), "connect", ok)
\* connect without the test of line 70: the board state is sent even when empty.
ConnectTail_always_snapshot(h, w, ok) ==
    Outcome(Transmit(w, h, BoardStateMsg(board_state), Direct, ok),
            IF Delivered(w, h, ok) THEN "snap" ELSE "snapfail", "none", FALSE, FALSE)
\* connect, lines 69-74, after the registration.
ConnectTail(h, w, ok) ==
    IF board_state # <<>> THEN
        Outcome(Transmit(w, h, BoardStateMsg(board_state), Direct, ok),
                IF Delivered(w, h, ok) THEN "snap" ELSE "snapfail", "none", FALSE, FALSE)
    ELSE After(h, BroadcastUserCount(w, ok), "connect", ok)
CallsUserCount(h) == board_state = <<>>

\* A client opens /ws/{client_id}: the handler runs to connect's await of accept.
\* Connections are numbered in the order they open, client ids in the order of
\* their first use.
Start(h, id) ==
    /\ pc[h] = "idle"
    /\ \A g \in Conns : g < h => pc[g] # "idle"
    /\ \A i \in ClientIds : i < id => \E g \in Conns : cid[g] = i
    /\ pc' = [pc EXCEPT ![h] = "accept"]
    /\ cid' = [cid EXCEPT ![h] = id]
    /\ UNCHANGED <<env, iter_errors, active_connections, connection_info, client_activity, board_state,
                   cont, stack, inbox, broken, nframes, nbreaks, ncloses, budget, live, reg_log,
                   reg_at, received, send_failed, connected, uc_from, reg_count, uc_count, dispatched, crashed,
                   returns, call>>

\* connect, lines 51-78, from the return of accept: it raised (connect raises
\* WebSocketException and the handler's finally runs), or it returned (connect
\* registers the client and sends the board state or starts the user count
\* broadcast).
Accept(h, accepted, ok) ==
    /\ pc[h] = "accept"
    /\ IF accepted THEN
           /\ Commit(h, ConnectTail(h, Register(World(h), h), ok), {})
           /\ reg_log' = [reg_log EXCEPT ![h] = board_state]
           /\ reg_at' = [reg_at EXCEPT ![h] = nframes]
           /\ uc_from' = IF CallsUserCount(h) THEN uc_from \cup {h} ELSE uc_from
           /\ reg_count' = [reg_count EXCEPT ![h] = DictLen(Register(World(h), h).ac)]
           /\ uc_count' = IF CallsUserCount(h)
                          THEN [uc_count EXCEPT
                                    ![h] = UserCountMsg(DictLen(Register(World(h), h).ac)).count]
                          ELSE uc_count
       ELSE
           /\ Commit(h, Final(h, [World(h) EXCEPT !.broken[h] = TRUE], ok), {})
           /\ UNCHANGED <<reg_log, reg_at, uc_from, reg_count, uc_count>>
    /\ UNCHANGED <<env, board_state, cid, nframes, ncloses, budget, received, dispatched, call>>

\* connect, lines 71-78, from the await of _send_board_state: it returned
\* (connect goes on to broadcast_user_count) or raised (WebSocketException).
SnapResume(h, ok) ==
    /\ pc[h] \in {"snap", "snapfail"}
    /\ IF pc[h] = "snap" THEN
           /\ Commit(h, After(h, BroadcastUserCount(World(h), ok), "connect", ok), {})
           /\ uc_from' = uc_from \cup {h}
           /\ uc_count' = [uc_count EXCEPT ![h] = UserCountMsg(DictLen(active_connections)).count]
       ELSE
           /\ Commit(h, Final(h, World(h), ok), {})
           /\ UNCHANGED <<uc_from, uc_count>>
    /\ UNCHANGED <<env, board_state, cid, nframes, ncloses, budget, reg_log, reg_at, received,
                   dispatched, call, reg_count>>

\* The send a broadcast awaited has returned or raised: the loop goes on.
BroadcastResume(h, ok) ==
    /\ pc[h] = "bcast"
    /\ Commit(h, After(h, RunBroadcast(AfterSend(World(h)), ok), cont[h], ok), {})
    /\ UNCHANGED <<env, board_state, cid, nframes, ncloses, budget, reg_log, reg_at, received, uc_from, reg_count, uc_count,
                   dispatched, call>>

\* The frames a client may send, by kind.
MessageOf(f) == Msg(f.type, f.clientId, f.mid, 0, <<>>, "")
DrawWith(p, id, mid) == Frame("object", "draw", id, p, mid)
InputFrame(kind, id, other, mid) ==
    CASE kind = "draw" -> DrawWith(GoodDraw, id, mid)
      [] kind = "text" -> Frame("object", "text", id, GoodText, mid)
      [] kind = "clear" -> Frame("object", "clear", id, NoPayload, mid)
      [] kind = "cursor" -> Frame("object", "cursor", id, CursorXY, mid)
      [] kind = "mismatch" -> DrawWith(GoodDraw, other, mid)
      [] kind = "json_bad" -> Frame("json_bad", "", None, NoPayload, mid)
      [] kind = "not_object" -> Frame("not_object", "", None, NoPayload, mid)
      [] kind = "no_type" -> Frame("no_type", "", id, NoPayload, mid)
      [] kind = "no_client_id" -> Frame("no_client_id", "draw", None, NoPayload, mid)
      [] kind = "bad_type" -> Frame("object", "scribble", id, GoodDraw, mid)
      [] kind = "draw_scalar" -> DrawWith(ScalarPayload, id, mid)
      [] kind = "draw_absent" -> DrawWith(NoPayload, id, mid)
      [] kind = "draw_many" -> DrawWith([GoodDraw EXCEPT !.npoints = max_stroke_points + 1], id, mid)
      [] kind = "draw_max" -> DrawWith([GoodDraw EXCEPT !.npoints = max_stroke_points], id, mid)
      [] kind = "draw_zero" -> DrawWith([GoodDraw EXCEPT !.npoints = 0], id, mid)
      [] kind = "draw_thin" -> DrawWith([GoodDraw EXCEPT !.size = MinSize - 1], id, mid)
      [] kind = "draw_thick" -> DrawWith([GoodDraw EXCEPT !.size = MaxSize + 1], id, mid)
      [] kind = "draw_far" -> DrawWith([GoodDraw EXCEPT !.hi = CoordLimit + 1], id, mid)
      [] kind = "draw_red" -> DrawWith([GoodDraw EXCEPT !.color = ColorRed], id, mid)
      [] kind = "draw_brush" -> DrawWith([GoodDraw EXCEPT !.tool = "brush"], id, mid)
      [] kind = "user_count" -> Frame("object", "user_count", id, EmptyObject, mid)
      [] kind = "board_state" -> Frame("object", "board_state", id, EmptyObject, mid)
      [] kind = "error" -> Frame("object", "error", id, EmptyObject, mid)
      [] kind = "text_long" ->
             Frame("object", "text", id, [GoodText EXCEPT !.content_len = MaxTextLen + 1], mid)
LiveKinds == {"draw"}
SeqKinds == {"draw", "text", "clear", "cursor"}
ValKinds == {"draw", "text", "clear", "cursor", "mismatch", "json_bad", "not_object",
             "no_type", "no_client_id", "bad_type", "draw_scalar", "draw_absent",
             "draw_many", "draw_max", "draw_zero", "draw_thin", "draw_thick", "draw_far",
             "draw_red", "draw_brush", "text_long"}
ErrKinds == {"draw", "mismatch", "json_bad", "not_object", "no_type", "no_client_id",
             "user_count", "board_state", "error"}

\* What websocket_endpoint hands to broadcast, as the design's board log sees it.
Dispatch(log, f) ==
    IF f.type \in {"draw", "text"} THEN Append(log, f)
    ELSE IF f.type = "clear" THEN <<>>
    ELSE log

OtherId(id) == IF id = NumIds THEN 1 ELSE id + 1

\* receive_text returned a frame: _process_incoming_message, then broadcast,
\* or the error message to the sender.
ReceiveFrame(h, f, ok) ==
    /\ nframes' = nframes + 1
    /\ received' = Append(received, [by |-> h, frame |-> f, error |-> ProcessError(f, cid[h]),
                                     at |-> now])
    /\ IF ProcessError(f, cid[h]) # "" THEN
           /\ Commit(h, Outcome(Transmit(World(h), h, ErrorMsg("VALIDATION_ERROR"), Direct, ok),
                                "err", "none", FALSE, FALSE), {})
           /\ UNCHANGED <<board_state, dispatched>>
       ELSE
           /\ board_state' = ProcessLog(board_state, f, cid[h])
           /\ dispatched' = Dispatch(dispatched, f)
           /\ Commit(h, After(h, BroadcastBegin(World(h), MessageOf(f), cid[h], ok), "loop", ok), {})
    /\ UNCHANGED <<env, cid, ncloses, budget, reg_log, reg_at, uc_from, reg_count, uc_count, call>>
Receive(h, ok) ==
    /\ pc[h] = "recv"
    /\ ~broken[h]
    /\ nframes < budget.frames
    /\ \E kind \in budget.kinds :
           ReceiveFrame(h, InputFrame(kind, cid[h], OtherId(cid[h]), nframes + 1), ok)

\* receive_text raised WebSocketDisconnect: the loop breaks, the finally runs.
ReceiveDisconnect(h, ok) ==
    /\ pc[h] = "recv"
    /\ nbreaks + ncloses < budget.faults
    /\ ncloses' = ncloses + 1
    /\ Commit(h, Final(h, [World(h) EXCEPT !.broken[h] = TRUE], ok), {h})
    /\ UNCHANGED <<env, board_state, cid, nframes, budget, reg_log, reg_at, received, uc_from, reg_count, uc_count,
                   dispatched, call>>

\* receive_text raised an exception that is not WebSocketDisconnect (the
\* transport failed under it): the except clause of lines 79-81 sends the
\* error message and the loop goes on.
ReceiveError(h) ==
    /\ pc[h] = "recv"
    /\ broken[h] \/ nbreaks + ncloses < budget.faults
    /\ Commit(h, Outcome(Transmit([World(h) EXCEPT !.broken[h] = TRUE], h,
                                  ErrorMsg("PROCESSING_ERROR"), Direct, FALSE),
                         "err", "none", FALSE, FALSE), {})
    /\ UNCHANGED <<env, board_state, cid, nframes, ncloses, budget, reg_log, reg_at, received,
                   uc_from, reg_count, uc_count, dispatched, call>>

\* _send_error_message returned (a failure of its send is swallowed).
ErrorSent(h) ==
    /\ pc[h] = "err"
    /\ pc' = [pc EXCEPT ![h] = "recv"]
    /\ UNCHANGED <<env, iter_errors, active_connections, connection_info, client_activity, board_state,
                   cid, cont, stack, inbox, broken, nframes, nbreaks, ncloses, budget, live, reg_log,
                   reg_at, received, send_failed, connected, uc_from, reg_count, uc_count, dispatched, crashed,
                   returns, call>>

\* ------------------------------------------------- send_personal_message
Personal == [how |-> "personal", excl |-> None]
PersonalMsg == Msg("error", Server, 0, 0, <<>>, "NOTICE")

\* send_personal_message(message, id), lines 117-124: to the await of the send.
PersonalSend(id, ok) ==
    /\ Task \in DOMAIN pc
    /\ pc[Task] = "task"
    /\ IF ~DictHas(active_connections, id) THEN
           /\ call' = [id |-> id, ws |-> None, ok |-> FALSE, ret |-> FALSE]
           /\ Commit(Task, Outcome(World(Task), "done", "none", FALSE, FALSE), {})
       ELSE
           LET ws == DictGet(active_connections, id) IN
           /\ call' = [id |-> id, ws |-> ws, ok |-> Delivered(World(Task), ws, ok),
                       ret |-> FALSE]
           /\ Commit(Task, Outcome(Transmit(World(Task), ws, PersonalMsg, Personal, ok),
                                   "psend", "none", FALSE, FALSE), {})
    /\ UNCHANGED <<env, board_state, cid, nframes, ncloses, budget, reg_log, reg_at, received,
                   uc_from, reg_count, uc_count, dispatched>>

\* send_personal_message, lines 125-130: the send returned (the activity is
\* updated, the call returns True) or raised (_handle_connection_error, then
\* the call returns False).
PersonalResume(ok) ==
    /\ Task \in DOMAIN pc
    /\ pc[Task] = "psend"
    /\ IF call.ok THEN
           /\ call' = [call EXCEPT !.ret = TRUE]
           /\ Commit(Task, Outcome(UpdateClientActivity(World(Task), call.id),
                                   "done", "none", FALSE, FALSE), {})
       ELSE
           /\ call' = [call EXCEPT !.ret = FALSE]
           /\ Commit(Task, After(Task, Disconnect(World(Task), call.id, ok), "personal", ok), {})
    /\ UNCHANGED <<env, board_state, cid, nframes, ncloses, budget, reg_log, reg_at, received,
                   uc_from, reg_count, uc_count, dispatched>>

\* ---------------------------------------------------------- RateLimiter
Identifiers == 1..RateIds

\* The list comprehension of lines 247-250 and 267-270.
Newer(request_history, cutoff_time) == SelectSeq(request_history, LAMBDA t : t > cutoff_time)

\* is_allowed with <= for < in line 253: one request too many is admitted.
is_allowed_one_more(req, identifier, current_time) ==
    LET known == IF identifier \in DOMAIN req THEN req
                 ELSE [k \in DOMAIN req \cup {identifier} |->
                           IF k = identifier THEN <<>> ELSE req[k]]
        kept == Newer(known[identifier], current_time - window_seconds) IN
    IF Len(kept) <= max_requests
    THEN [requests |-> [known EXCEPT ![identifier] = Append(kept, current_time)],
          allowed |-> TRUE]
    ELSE [requests |-> [known EXCEPT ![identifier] = kept], allowed |-> FALSE]
\* is_allowed without lines 245-250: the history is never pruned.
is_allowed_no_prune(req, identifier, current_time) ==
    LET known == IF identifier \in DOMAIN req THEN req
                 ELSE [k \in DOMAIN req \cup {identifier} |->
                           IF k = identifier THEN <<>> ELSE req[k]]
        kept == known[identifier] IN
    IF Len(kept) < max_requests
    THEN [requests |-> [known EXCEPT ![identifier] = Append(kept, current_time)],
          allowed |-> TRUE]
    ELSE [requests |-> [known EXCEPT ![identifier] = kept], allowed |-> FALSE]
\* is_allowed with the append of line 254 moved before the test: a refused
\* request is recorded too.
is_allowed_records_refused(req, identifier, current_time) ==
    LET known == IF identifier \in DOMAIN req THEN req
                 ELSE [k \in DOMAIN req \cup {identifier} |->
                           IF k = identifier THEN <<>> ELSE req[k]]
        kept == Newer(known[identifier], current_time - window_seconds) IN
    [requests |-> [known EXCEPT ![identifier] = Append(kept, current_time)],
     allowed |-> Len(kept) < max_requests]
\* is_allowed interrupted between the test of line 253 and the append of line
\* 254: the test does not see the entries of the calls made at the same time.
is_allowed_stale(req, identifier, current_time) ==
    LET known == IF identifier \in DOMAIN req THEN req
                 ELSE [k \in DOMAIN req \cup {identifier} |->
                           IF k = identifier THEN <<>> ELSE req[k]]
        kept == Newer(known[identifier], current_time - window_seconds)
        seen == SelectSeq(kept, LAMBDA t : t < current_time) IN
    IF Len(seen) < max_requests
    THEN [requests |-> [known EXCEPT ![identifier] = Append(kept, current_time)],
          allowed |-> TRUE]
    ELSE [requests |-> [known EXCEPT ![identifier] = kept], allowed |-> FALSE]
\* is_allowed(identifier) called at current_time on the ledger req: the ledger
\* it leaves and the value it returns.
is_allowed(req, identifier, current_time) ==
    LET known == IF identifier \in DOMAIN req THEN req
                 ELSE [k \in DOMAIN req \cup {identifier} |->
                           IF k = identifier THEN <<>> ELSE req[k]]
        kept == Newer(known[identifier], current_time - window_seconds) IN
    IF Len(kept) < max_requests
    THEN [requests |-> [known EXCEPT ![identifier] = Append(kept, current_time)],
          allowed |-> TRUE]
    ELSE [requests |-> [known EXCEPT ![identifier] = kept], allowed |-> FALSE]

\* cleanup_old_entries with the cutoff of is_allowed: one window, not two.
cleanup_old_entries_one_window(req, current_time) ==
    LET cutoff_time == current_time - window_seconds
        pruned == [k \in DOMAIN req |-> Newer(req[k], cutoff_time)]
        identifiers_to_remove == {k \in DOMAIN req : pruned[k] = <<>>} IN
    [k \in (DOMAIN req) \ identifiers_to_remove |-> pruned[k]]
\* cleanup_old_entries with a cutoff of half a window: it drops timestamps that
\* is_allowed still counts.
cleanup_old_entries_half_window(req, current_time) ==
    LET cutoff_time == current_time - (window_seconds \div 2)
        pruned == [k \in DOMAIN req |-> Newer(req[k], cutoff_time)]
        identifiers_to_remove == {k \in DOMAIN req : pruned[k] = <<>>} IN
    [k \in (DOMAIN req) \ identifiers_to_remove |-> pruned[k]]
\* cleanup_old_entries called at current_time on the ledger req.
cleanup_old_entries(req, current_time) ==
    LET cutoff_time == current_time - (window_seconds * 2)
        pruned == [k \in DOMAIN req |-> Newer(req[k], cutoff_time)]
        identifiers_to_remove == {k \in DOMAIN req : pruned[k] = <<>>} IN
    [k \in (DOMAIN req) \ identifiers_to_remove |-> pruned[k]]

\* A caller asks ai_rate_limiter.is_allowed(identifier).
IsAllowed(identifier) ==
    /\ Len(verdicts) < RateCalls
    /\ requests' = is_allowed(requests, identifier, now).requests
    /\ verdicts' = Append(verdicts, [op |-> "is_allowed", id |-> identifier, at |-> now,
                                     allowed |-> is_allowed(requests, identifier, now).allowed])
    /\ UNCHANGED <<manager, now, sweep, http, ai_client>>

\* A caller runs ai_rate_limiter.cleanup_old_entries().
CleanupOldEntries ==
    /\ Len(verdicts) < RateCalls
    /\ requests' = cleanup_old_entries(requests, now)
    /\ verdicts' = Append(verdicts, [op |-> "cleanup", id |-> None, at |-> now,
                                     allowed |-> FALSE])
    /\ UNCHANGED <<manager, now, sweep, http, ai_client>>

\* ------------------------------------------------------- HTTP endpoints
\* What the OpenAI request of one ai-assist call comes to: a text (plain, with
\* a mermaid block, with a block of another language, with a code fence that
\* names no language), a text under 10 characters, an empty message, no
\* choices, a timeout, an OpenAIError, another exception.
Upstream == {"text", "mermaid", "code", "bare_fence", "short", "empty", "no_choices",
             "timeout", "openai_error", "error"}

\* A call's result: the value it returns, or the exception it raises.
Returns(v) == [raised |-> "", message |-> [text |-> "", cause |-> ""], value |-> v]
Raises(exc, text, cause) ==
    [raised |-> exc, message |-> [text |-> text, cause |-> cause], value |-> ""]

\* AIService._make_openai_request
MakeOpenaiRequest(u) ==
    CASE u = "timeout" -> Raises("AIServiceException", "AI request timed out", "")
      [] u = "openai_error" -> Raises("AIServiceException", "OpenAI API error", "")
      [] u = "error" -> Raises("AIServiceException", "Unexpected error", "")
      [] OTHER -> Returns(u)
\* AIService._extract_interpretation
ExtractInterpretation(u) ==
    CASE u = "no_choices" -> Raises("AIServiceException", "No response choices received from AI", "")
      [] u = "empty" -> Raises("AIServiceException", "Empty response received from AI", "")
      [] u = "short" -> Raises("AIServiceException", "AI response too short", "")
      [] OTHER -> Returns(u)
\* AIService.interpret_canvas, lines 73-82: the logging of the response; the
\* expression of line 80 raises IndexError when nothing follows the fence.
LogResponse(response) ==
    IF response = "mermaid" THEN Returns(response)
    ELSE IF response = "bare_fence" THEN Raises("IndexError", "list index out of range", "")
    ELSE Returns(response)
\* AIService.interpret_canvas, lines 87-89
Failed(r) == Raises("AIServiceException", "Failed to interpret canvas", r.message.text)
\* AIService.interpret_canvas
interpret_canvas(u) ==
    LET openai_response == MakeOpenaiRequest(u) IN
    IF openai_response.raised # "" THEN Failed(openai_response)
    ELSE LET response == ExtractInterpretation(openai_response.value) IN
         IF response.raised # "" THEN Failed(response)
         ELSE IF LogResponse(response.value).raised # "" THEN Failed(LogResponse(response.value))
         ELSE Returns(response.value)

\* An HTTP response: the status code, what the body is (an AIAssistResponse,
\* the detail of an HTTPException, the JSON of health_check, or none when an
\* exception leaves the endpoint), and the fields of the body. An Optional
\* field is the empty set (None) or holds its value.
Response(status, model, success, interpretation, error, body_status, timestamp) ==
    [status |-> status, model |-> model, success |-> success,
     interpretation |-> interpretation, error |-> error, body_status |-> body_status,
     timestamp |-> timestamp]
NoResponse == Response(0, "", FALSE, {}, {}, "", {})
HTTPException(status_code) == Response(status_code, "HTTPException", FALSE, {}, {}, "", {})
AIAssistResponse(success, interpretation, error) ==
    Response(200, "AIAssistResponse", success, interpretation, error, "", {})
Unhandled(r) == Response(500, "unhandled", FALSE, {}, {r.message}, "", {})

\* ai_assist without its except clauses (lines 89-111).
AiAssistReturn_no_except(r) ==
    IF r.raised = "" THEN AIAssistResponse(TRUE, {r.value}, {})
    ELSE Unhandled(r)
\* ai_assist, lines 77-111: from the return of interpret_canvas.
AiAssistReturn(r) ==
    IF r.raised = "" THEN AIAssistResponse(TRUE, {r.value}, {})
    ELSE IF r.raised = "AIServiceException" THEN AIAssistResponse(FALSE, {}, {r.message})
    ELSE AIAssistResponse(FALSE, {}, {[text |-> "An unexpected error occurred", cause |-> ""]})

HttpCall(kind, identifier, where, upstream, response) ==
    [kind |-> kind, id |-> identifier, pc |-> where, at |-> now, upstream |-> upstream,
     response |-> response]

\* POST /ai-assist from identifier, lines 53-77: the rate limit, the
\* availability of the service, then the await of interpret_canvas.
AiAssist(identifier) ==
    /\ Len(http) < HttpCalls
    /\ requests' = is_allowed(requests, identifier, now).requests
    /\ verdicts' = Append(verdicts, [op |-> "is_allowed", id |-> identifier, at |-> now,
                                     allowed |-> is_allowed(requests, identifier, now).allowed])
    /\ http' = Append(http,
                      IF ~is_allowed(requests, identifier, now).allowed
                      THEN HttpCall("ai_assist", identifier, "done", "", HTTPException(429))
                      ELSE IF ~ai_client
                      THEN HttpCall("ai_assist", identifier, "done", "", HTTPException(503))
                      ELSE HttpCall("ai_assist", identifier, "await", "", NoResponse))
    /\ UNCHANGED <<manager, now, sweep, ai_client>>

\* interpret_canvas returns or raises: ai_assist builds its response.
AiAssistResume(n, u) ==
    /\ n \in DOMAIN http
    /\ http[n].kind = "ai_assist"
    /\ http[n].pc = "await"
    /\ http' = [http EXCEPT ![n].pc = "done", ![n].upstream = u,
                            ![n].response = AiAssistReturn(interpret_canvas(u))]
    /\ UNCHANGED <<manager, now, sweep, requests, verdicts, ai_client>>

\* health_check with the test of line 139 reduced to ai_healthy: a service
\* that is not configured counts as degraded.
HealthResponse_needs_ai(available, ai_healthy, timestamp) ==
    LET overall_status == IF ai_healthy THEN "healthy" ELSE "degraded" IN
    Response(IF overall_status = "healthy" THEN 200 ELSE 503, "JSONResponse", FALSE, {}, {},
             overall_status, {timestamp})
\* health_check, lines 133-147: the response, from the result of the probe.
HealthResponse(available, ai_healthy, timestamp) ==
    LET overall_status == IF ai_healthy \/ ~available THEN "healthy" ELSE "degraded" IN
    Response(IF overall_status = "healthy" THEN 200 ELSE 503, "JSONResponse", FALSE, {}, {},
             overall_status, {timestamp})

\* GET /health, lines 122-132: the timestamp is taken, then the probe of the AI
\* service is awaited when the service is configured.
HealthCheck ==
    /\ Len(http) < HttpCalls
    /\ http' = Append(http,
                      IF ai_client
                      THEN HttpCall("health", None, "await", "", NoResponse)
                      ELSE HttpCall("health", None, "done", "",
                                    HealthResponse(ai_client, FALSE, now)))
    /\ UNCHANGED <<manager, now, sweep, requests, verdicts, ai_client>>

\* AIService.health_check returns: True when models.list answered within its
\* timeout, False when it raised.
HealthResume(n, probe) ==
    /\ n \in DOMAIN http
    /\ http[n].kind = "health"
    /\ http[n].pc = "await"
    /\ http' = [http EXCEPT ![n].pc = "done", ![n].upstream = probe,
                            ![n].response = HealthResponse(ai_client, probe = "ok", http[n].at)]
    /\ UNCHANGED <<manager, now, sweep, requests, verdicts, ai_client>>

\* ------------------------------------------- cleanup_inactive_connections
\* The task that calls cleanup_inactive_connections.
Reaper == -2
\* No sweep has been called.
NoSweep == [timeout |-> 0, todo |-> <<>>, found |-> 0, evicted |-> <<>>, ret |-> -1]

\* cleanup_inactive_connections, lines 222-227: the client ids of the activity
\* table, in its order, whose last activity is more than timeout_seconds old.
RECURSIVE InactiveClients(_, _, _)
InactiveClients(act, current_time, timeout_seconds) ==
    IF act = <<>> THEN <<>>
    ELSE LET rest == InactiveClients(Tail(act), current_time, timeout_seconds) IN
         IF Head(act).k # None /\ current_time - Head(act).v > timeout_seconds
         THEN <<Head(act).k>> \o rest
         ELSE rest

\* For the record: the client id disconnect is called with, the websocket
\* registered under it and the age of its last activity at that point.
Eviction(w, client_id) ==
    [id |-> client_id,
     ws |-> IF DictHas(w.ac, client_id) THEN DictGet(w.ac, client_id) ELSE None,
     idle |-> IF DictHas(w.act, client_id) THEN w.now - DictGet(w.act, client_id) ELSE -1]

\* cleanup_inactive_connections, lines 229-233: disconnect for each listed
\* client, up to the next await of a send, the return, or an exception out of
\* disconnect.
RECURSIVE SweepLoop(_, _, _, _)
SweepLoop(w, todo, evicted, ok) ==
    IF todo = <<>> THEN [w |-> w, todo |-> todo, evicted |-> evicted, pc |-> "done"]
    ELSE LET w1 == Disconnect(w, Head(todo), ok)
             log == Append(evicted, Eviction(w, Head(todo))) IN
         IF w1.out = "suspended"
         THEN [w |-> w1, todo |-> Tail(todo), evicted |-> log, pc |-> "bcast"]
         ELSE IF w1.out = "returned" THEN SweepLoop(w1, Tail(todo), log, ok)
         ELSE [w |-> w1, todo |-> Tail(todo), evicted |-> log, pc |-> "raised"]

SweepCommit(r) ==
    /\ sweep' = [sweep EXCEPT !.todo = r.todo, !.evicted = r.evicted,
                              !.ret = IF r.pc = "done" THEN sweep.found ELSE -1]
    /\ Commit(Reaper, Outcome(r.w, IF r.pc = "bcast" THEN "bcast" ELSE "done",
                              IF r.pc = "bcast" THEN "sweep" ELSE "none",
                              FALSE, r.pc = "raised"), {})

\* A task calls cleanup_inactive_connections(timeout_seconds).
SweepStart(timeout_seconds, ok) ==
    /\ Reaper \in DOMAIN pc
    /\ pc[Reaper] = "task"
    /\ LET inactive_clients == InactiveClients(client_activity, now, timeout_seconds)
           r == SweepLoop(World(Reaper), inactive_clients, <<>>, ok) IN
       /\ sweep' = [timeout |-> timeout_seconds, todo |-> r.todo,
                    found |-> Len(inactive_clients), evicted |-> r.evicted,
                    ret |-> IF r.pc = "done" THEN Len(inactive_clients) ELSE -1]
       /\ Commit(Reaper, Outcome(r.w, IF r.pc = "bcast" THEN "bcast" ELSE "done",
                                 IF r.pc = "bcast" THEN "sweep" ELSE "none",
                                 FALSE, r.pc = "raised"), {})
    /\ UNCHANGED <<board_state, cid, nframes, ncloses, budget, reg_log, reg_at, received,
                   uc_from, reg_count, uc_count, dispatched, call, now, requests, verdicts,
                   http, ai_client>>

\* The send that a disconnect of the sweep awaited has returned or raised: its
\* broadcast goes on, then the sweep's loop.
SweepResume(ok) ==
    /\ Reaper \in DOMAIN pc
    /\ pc[Reaper] = "bcast"
    /\ LET w == RunBroadcast(AfterSend(World(Reaper)), ok) IN
       SweepCommit(IF w.out = "suspended"
                   THEN [w |-> w, todo |-> sweep.todo, evicted |-> sweep.evicted, pc |-> "bcast"]
                   ELSE IF w.out = "returned" THEN SweepLoop(w, sweep.todo, sweep.evicted, ok)
                   ELSE [w |-> w, todo |-> sweep.todo, evicted |-> sweep.evicted,
                         pc |-> "raised"])
    /\ UNCHANGED <<board_state, cid, nframes, ncloses, budget, reg_log, reg_at, received,
                   uc_from, reg_count, uc_count, dispatched, call, now, requests, verdicts,
                   http, ai_client>>
NoCall == [id |-> None, ws |-> None, ok |-> FALSE, ret |-> FALSE]
\* The manager as constructed, n connections not yet opened, the tasks (none,
\* or the caller of send_personal_message or of the sweep) not yet started,
\* the rate limiter as constructed and the AI service configured or not.
InitAll(n, tasks, b, configured) ==
    /\ active_connections = <<>>
    /\ connection_info = <<>>
    /\ client_activity = <<>>
    /\ board_state = <<>>
    /\ pc = [h \in tasks \cup (1..n) |-> IF h \in tasks THEN "task" ELSE "idle"]
    /\ cid = [h \in 1..n |-> None]
    /\ cont = [h \in tasks \cup (1..n) |-> "none"]
    /\ stack = [h \in tasks \cup (1..n) |-> <<>>]
    /\ call = NoCall
    /\ inbox = [h \in 1..n |-> <<>>]
    /\ broken = [h \in 1..n |-> FALSE]
    /\ nframes = 0
    /\ nbreaks = 0
    /\ ncloses = 0
    /\ budget = b
    /\ live = {}
    /\ reg_log = [h \in 1..n |-> <<>>]
    /\ reg_at = [h \in 1..n |-> -1]
    /\ received = <<>>
    /\ send_failed = FALSE
    /\ connected = {}
    /\ uc_from = {}
    /\ reg_count = [h \in 1..n |-> 0]
    /\ uc_count = [h \in 1..n |-> -1]
    /\ dispatched = <<>>
    /\ crashed = {}
    /\ returns = {}
    /\ now = 0
    /\ iter_errors = {}
    /\ sweep = NoSweep
    /\ requests = <<>>
    /\ verdicts = <<>>
    /\ http = <<>>
    /\ ai_client = configured
\* The same without an OpenAI API key: the AI service has no client.
InitTasks(n, tasks, b) == InitAll(n, tasks, b, FALSE)
InitWith(n, b) == InitTasks(n, {}, b)

\* faults: transport failures and client closes together; breaks: failures.
Budget(frames, faults, breaks, kinds) ==
    [frames |-> frames, faults |-> faults, breaks |-> breaks, kinds |-> kinds]
Init == InitWith(LiveConns, Budget(LiveFrames, LiveFaults, LiveFaults, LiveKinds))
InitSeq == InitWith(SeqConns, Budget(SeqFrames, SeqConns, 0, SeqKinds))
InitVal == InitWith(ValConns, Budget(ValFrames, ValConns + ValBreaks, ValBreaks, ValKinds))
InitErr == InitWith(ErrConns, Budget(ErrFrames, ErrBreaks, ErrBreaks, ErrKinds))

Next ==
    \/ \E h \in Conns, id \in ClientIds : Start(h, id)
    \/ \E h \in Conns, accepted \in BOOLEAN, ok \in BOOLEAN : Accept(h, accepted, ok)
    \/ \E h \in Conns, ok \in BOOLEAN : SnapResume(h, ok)
    \/ \E h \in Conns, ok \in BOOLEAN : BroadcastResume(h, ok)
    \/ \E h \in Conns, ok \in BOOLEAN : Receive(h, ok)
    \/ \E h \in Conns, ok \in BOOLEAN : ReceiveDisconnect(h, ok)
    \/ \E h \in Conns : ErrorSent(h)

Spec == Init /\ [][Next]_vars
SpecSeq == InitSeq /\ [][Next]_vars
SpecVal == InitVal /\ [][Next]_vars
SpecErr == InitErr /\ [][Next]_vars

\* time.time() returns a later time than it did before.
Tick(limit) ==
    /\ now < limit
    /\ now' = now + 1
    /\ UNCHANGED <<manager, sweep, requests, verdicts, http, ai_client>>

\* The application as create_app builds it, with the clock running.
InitIdle == InitWith(IdleConns, Budget(IdleFrames, IdleFaults, IdleFaults, LiveKinds))
NextIdle ==
    \/ Next
    \/ Tick(IdleTicks)
SpecIdle == InitIdle /\ [][NextIdle]_vars
\* What the event loop runs without waiting for a client: a handler whose
\* accept or send has completed goes on.
Resumes ==
    \/ \E h \in Conns, accepted \in BOOLEAN, ok \in BOOLEAN : Accept(h, accepted, ok)
    \/ \E h \in Conns, ok \in BOOLEAN : SnapResume(h, ok)
    \/ \E h \in Conns, ok \in BOOLEAN : BroadcastResume(h, ok)
    \/ \E h \in Conns : ErrorSent(h)
\* Some handler can go on: Resumes is enabled.
Resumable == \E h \in Conns : pc[h] \in {"accept", "snap", "snapfail", "bcast", "err"}
\* The same application where time passes and every handler that can go on
\* does (weak fairness of Resumes, its enabling condition written out); the
\* clients need not do anything.
SpecIdleFair ==
    /\ SpecIdle
    /\ WF_vars(Tick(IdleTicks))
    /\ ([]<>(~Resumable) \/ []<><<Resumes>>_vars)

\* The application with a task that calls cleanup_inactive_connections once.
InitSweep ==
    InitTasks(SweepConns, {Reaper}, Budget(SweepFrames, SweepFaults, SweepFaults, LiveKinds))
NextSweep ==
    \/ Next
    \/ Tick(SweepTicks)
    \/ \E ok \in BOOLEAN : SweepStart(SweepTimeout, ok)
    \/ \E ok \in BOOLEAN : SweepResume(ok)
SpecSweep == InitSweep /\ [][NextSweep]_vars

\* The HTTP endpoints, with the AI service configured or not.
InitHttp == \E configured \in BOOLEAN : InitAll(0, {}, Budget(0, 0, 0, {}), configured)
NextHttp ==
    \/ \E identifier \in Identifiers : AiAssist(identifier)
    \/ \E n \in 1..HttpCalls, u \in Upstream : AiAssistResume(n, u)
    \/ HealthCheck
    \/ \E n \in 1..HttpCalls, probe \in {"ok", "timeout", "error"} : HealthResume(n, probe)
    \/ Tick(HttpTicks)
SpecHttp == InitHttp /\ [][NextHttp]_vars

\* The rate limiter as constructed, and its callers.
InitRate == InitWith(0, Budget(0, 0, 0, {}))
NextRate ==
    \/ \E identifier \in Identifiers : IsAllowed(identifier)
    \/ CleanupOldEntries
    \/ Tick(RateTicks)
SpecRate == InitRate /\ [][NextRate]_vars

\* The websocket handlers, where receive_text may also fail with an exception
\* of the transport.
InitRecv == InitWith(RecvConns, Budget(RecvFrames, RecvFaults, RecvFaults, LiveKinds))
NextRecv ==
    \/ Next
    \/ \E h \in Conns : ReceiveError(h)
SpecRecv == InitRecv /\ [][NextRecv]_vars

\* The websocket handlers where every transport may fail, and every handler
\* whose accept or send has completed goes on (weak fairness of Resumes, its
\* enabling condition written out).
InitChain == InitWith(ChainConns, Budget(ChainFrames, ChainFaults, ChainFaults, LiveKinds))
SpecChainFair ==
    /\ InitChain /\ [][Next]_vars
    /\ ([]<>(~Resumable) \/ []<><<Resumes>>_vars)

InitApi ==
    InitTasks(ApiConns, {Task}, Budget(ApiFrames, ApiBreaks + ApiCloses, ApiBreaks, LiveKinds))
NextApi ==
    \/ Next
    \/ \E id \in ClientIds, ok \in BOOLEAN : PersonalSend(id, ok)
    \/ \E ok \in BOOLEAN : PersonalResume(ok)
    \/ \E ok \in BOOLEAN : BroadcastResume(Task, ok)
SpecApi == InitApi /\ [][NextApi]_vars

\* ================================================================ claims
active_connections_count == DictLen(active_connections)
Started == {h \in Conns : pc[h] # "idle"}
DistinctIds == \A g, h \in Started : g # h => cid[g] # cid[h]
LogMids(log) == {log[k].mid : k \in DOMAIN log}
\* The copies of frame mid that a broadcast delivered to websocket h.
Copies(h, mid) ==
    {i \in DOMAIN inbox[h] : inbox[h][i].via.how = "broadcast" /\ inbox[h][i].msg.mid = mid}
\* Connection h is still inside the broadcast of the frame it received as mid.
Broadcasting(h, mid) ==
    /\ pc[h] = "bcast"
    /\ cont[h] = "loop"
    /\ stack[h][1].msg.mid = mid

\* C1: the connection count equals the number of connections that have
\* registered and have not been deregistered since.
C1_CountEqualsLiveSessions == active_connections_count = Cardinality(live)

\* C2: a connect for a client id that is already registered leaves the
\* registered websocket and its metadata as they were (it never overwrites).
C2_ConnectNeverOverwrites ==
    [][\A id \in ClientIds :
          (DictHas(active_connections, id) /\ DictHas(active_connections', id))
          => /\ DictGet(active_connections', id) = DictGet(active_connections, id)
             /\ connection_info'[id] = connection_info[id]]_vars

\* C3: the board log is exactly the draw and text actions handed to broadcast
\* since the last clear handed to broadcast, in arrival order, and holds no
\* entry of another type.
C3_LogIsDispatchedSinceClear ==
    /\ board_state = dispatched
    /\ \A k \in DOMAIN board_state : board_state[k].type \in {"draw", "text"}
\* A draw, then a clear, then a second draw that is alone in the log, with a
\* cursor or the clear having reached the other client.
C3_Witness ==
    /\ Len(received) = 3
    /\ received[2].frame.type = "clear"
    /\ Len(board_state) = 1
    /\ board_state[1].mid = 3
    /\ \E h \in Conns : \E i \in DOMAIN inbox[h] : inbox[h][i].msg.type = "clear"

\* C4: a client that registers while the board log is non-empty receives, as
\* its first message, the board_state holding the log as it was at the
\* registration, before any user_count or peer broadcast.
C4_SnapshotFirst ==
    \A h \in Conns :
        (reg_at[h] >= 0 /\ reg_log[h] # <<>>)
        => \/ inbox[h] = <<>> /\ broken[h]
           \/ /\ inbox[h] # <<>>
              /\ inbox[h][1].msg = BoardStateMsg(reg_log[h])
              /\ inbox[h][1].via = Direct
\* A client registered on a non-empty log and has then received a user_count.
C4_Witness ==
    \E h \in Conns :
        /\ reg_log[h] # <<>>
        /\ Len(inbox[h]) >= 2
        /\ inbox[h][2].msg.type = "user_count"

\* C5: a broadcast with exclude_client = c never sends to the websocket
\* registered under c, whether the send succeeds or fails.
C5_ExcludedNeverSentTo ==
    /\ \A h \in Conns : \A i \in DOMAIN inbox[h] :
           inbox[h][i].via.how = "broadcast" => inbox[h][i].via.excl # cid[h]
    /\ \A h \in Conns : \A k \in DOMAIN stack[h] :
           stack[h][k].excl # None => stack[h][k].cur # stack[h][k].excl
\* A registered client's draw has reached another client, a transport has
\* failed, and the sender is still registered.
C5_Witness ==
    \E a, b \in Conns :
        /\ a # b
        /\ Len(received) = 1 /\ received[1].by = a
        /\ Copies(b, 1) # {}
        /\ DictHas(active_connections, cid[a])
        /\ send_failed

\* C6: when a registered client sends one valid draw and no send fails, then
\* once its broadcast is over every other session registered throughout has
\* received the draw exactly once, the sender has no copy, and the log has
\* grown by that one entry.
C6_EveryOtherSessionOnce ==
    \A m \in DOMAIN received :
        LET a == received[m].by IN
        (/\ received[m].error = ""
         /\ received[m].frame.type \in {"draw", "text"}
         /\ DistinctIds
         /\ ~send_failed
         /\ ~Broadcasting(a, m)
         /\ reg_at[a] >= 0 /\ reg_at[a] < m)
        => /\ \A g \in Conns \ {a} :
                  (g \in live /\ reg_at[g] >= 0 /\ reg_at[g] < m)
                  => Cardinality(Copies(g, m)) = 1
           /\ Copies(a, m) = {}
           /\ Cardinality({k \in DOMAIN board_state : board_state[k].mid = m}) = 1

\* C7: a valid clear empties the board log in the step that processes it (a
\* snapshot taken next is empty), and the log never holds a clear marker.
BoardStateSnapshot == board_state
ClearProcessed ==
    /\ Len(received') = Len(received) + 1
    /\ received'[Len(received')].frame.type = "clear"
    /\ received'[Len(received')].error = ""
C7_ClearEmptiesLog ==
    /\ [][ClearProcessed => BoardStateSnapshot' = <<>>]_vars
    /\ [](\A k \in DOMAIN BoardStateSnapshot : BoardStateSnapshot[k].type # "clear")
\* A clear was processed when the log held two actions.
C7_Witness ==
    /\ Len(received) = 3
    /\ received[1].frame.type \in {"draw", "text"}
    /\ received[2].frame.type \in {"draw", "text"}
    /\ received[3].frame.type = "clear"
    /\ board_state = <<>>

C9_NoActionTwice ==
    \A h \in Conns : \A i, j \in DOMAIN inbox[h] :
        (/\ DistinctIds
         /\ inbox[h][i].msg.type = "board_state"
         /\ inbox[h][j].via.how = "broadcast"
         /\ inbox[h][j].msg.type \in {"draw", "text"})
        => inbox[h][j].msg.mid \notin LogMids(inbox[h][i].msg.actions)

\* C10: a draw or text frame whose payload breaks the schema is rejected with
\* a validation error, is not in the board log and reaches no client.
C10_SchemaViolationRejected ==
    \A m \in DOMAIN received :
        LET f == received[m].frame IN
        (f.shape = "object" /\ f.type \in {"draw", "text"} /\ ~SchemaConforms(f))
        => /\ received[m].error # ""
           /\ m \notin LogMids(board_state)
           /\ \A h \in Conns : Copies(h, m) = {}

\* The step in which connection h's handler processes an inbound frame.
Processes(h) ==
    /\ Len(received') = Len(received) + 1
    /\ received'[Len(received')].by = h
Latest == received'[Len(received')]
\* The step answers connection h with a validation error and nothing else: the
\* log, the registry and every other client's frames are as they were.
RejectedQuietly(h) ==
    /\ Latest.error # ""
    /\ board_state' = board_state
    /\ active_connections' = active_connections
    /\ connection_info' = connection_info
    /\ live' = live
    /\ \A g \in Conns \ {h} : inbox'[g] = inbox[g]
    /\ \/ /\ Len(inbox'[h]) = Len(inbox[h]) + 1
          /\ SubSeq(inbox'[h], 1, Len(inbox[h])) = inbox[h]
          /\ inbox'[h][Len(inbox'[h])].via = Direct
          /\ inbox'[h][Len(inbox'[h])].msg.type = "error"
          /\ inbox'[h][Len(inbox'[h])].msg.client_id = Server
          /\ inbox'[h][Len(inbox'[h])].msg.code = "VALIDATION_ERROR"
       \/ inbox'[h] = inbox[h] /\ broken'[h]
    /\ pc'[h] = "err"
\* From the error reply the handler is back at receive_text, still registered.
BackToReceive(h) ==
    (pc[h] = "err" /\ pc'[h] # "err")
    => /\ pc'[h] = "recv"
       /\ active_connections' = active_connections
       /\ ~broken[h] => ~broken'[h]
PriorMismatch(h) ==
    \E m \in DOMAIN received :
        /\ received[m].by = h
        /\ received[m].frame.shape = "object"
        /\ received[m].frame.clientId # cid[h]

\* C11: a frame whose clientId is not the connection's client id is rejected:
\* the log and the registry are unchanged, nothing reaches another client,
\* the sender is sent an error, its handler returns to receive_text, and a
\* valid draw it sends afterwards is accepted, logged and handed to broadcast.
C11_MismatchRejected ==
    /\ [][\A h \in Conns :
            (Processes(h) /\ Latest.frame.shape = "object" /\ Latest.frame.clientId # cid[h])
            => RejectedQuietly(h)]_vars
    /\ [][\A h \in Conns : BackToReceive(h)]_vars
    /\ [][\A h \in Conns :
            (/\ Processes(h) /\ PriorMismatch(h)
             /\ Latest.frame = DrawWith(GoodDraw, cid[h], Len(received')))
            => /\ Latest.error = ""
               /\ board_state' = Append(board_state, Latest.frame)
               /\ dispatched' = Append(dispatched, Latest.frame)]_vars
\* A connection was refused a frame with a foreign clientId, and its next
\* frame, a valid draw, has reached the other client.
C11_Witness ==
    /\ Len(received) = 2
    /\ received[1].error = "Client ID mismatch"
    /\ received[2].by = received[1].by
    /\ received[2].error = ""
    /\ \E g \in Conns \ {received[1].by} : Copies(g, 2) # {}
    /\ \A g \in Conns : Copies(g, 1) = {}

Malformed == {"json_bad", "not_object", "no_type", "no_client_id"}
\* C12: text that is not JSON, not a JSON object, or lacks type or clientId
\* is answered with an error carrying the validation code, sent to the sender
\* alone; the log is unchanged, nothing is broadcast, and the connection stays
\* registered with its handler back at receive_text.
C12_MalformedRejected ==
    /\ [][\A h \in Conns :
            (Processes(h) /\ Latest.frame.shape \in Malformed) => RejectedQuietly(h)]_vars
    /\ [][\A h \in Conns : BackToReceive(h)]_vars
    /\ [](\A m \in DOMAIN received :
             received[m].frame.shape \in Malformed
             => /\ received[m].error # ""
                /\ \A g \in Conns : Copies(g, m) = {})
\* Unparseable text was answered with an error to its sender, who is still
\* registered and receiving, while the other registered client got no error.
C12_Witness ==
    /\ Len(received) >= 1
    /\ received[1].frame.shape = "json_bad"
    /\ LET h == received[1].by IN
       /\ pc[h] = "recv"
       /\ h \in live
       /\ \E i \in DOMAIN inbox[h] : inbox[h][i].msg.code = "VALIDATION_ERROR"
       /\ \E g \in live \ {h} : \A i \in DOMAIN inbox[g] : inbox[g][i].msg.type # "error"

ServerOnly == {"user_count", "board_state", "error"}
\* C13: every user_count, board_state or error message a client receives was
\* built by the server and carries clientId "server", and a frame of one of
\* these types sent by a client is never broadcast.
C13_ServerOnlyTypes ==
    /\ \A h \in Conns : \A i \in DOMAIN inbox[h] :
           inbox[h][i].msg.type \in ServerOnly
           => /\ inbox[h][i].msg.client_id = Server
              /\ inbox[h][i].msg.mid = 0
    /\ \A m \in DOMAIN received :
           (received[m].frame.shape = "object" /\ received[m].frame.type \in ServerOnly)
           => \A g \in Conns : Copies(g, m) = {}

\* Handler h's broadcast resumes from a send_text that raised.
ResumesAfterFailure(h) ==
    /\ pc[h] = "bcast"
    /\ ~stack[h][Len(stack[h])].ok
    /\ (stack'[h] # stack[h] \/ pc'[h] # pc[h])
\* C14: a send that raises does not end the fan-out: the failing client is
\* noted, and the next non-excluded entry of the registry, a session other
\* than the one that failed, is sent the same message, which it receives
\* unless its own transport fails.
C14_FailureDoesNotAbort ==
    [][\A h \in Conns :
          LET f == stack[h][Len(stack[h])]
              r == Advance(active_connections, f.it, f.excl)
              e == active_connections[r.i] IN
          (ResumesAfterFailure(h) /\ r.st = "item")
          => /\ pc'[h] = "bcast"
             /\ Len(stack'[h]) = Len(stack[h])
             /\ stack'[h][Len(stack[h])].failed = Append(f.failed, f.cur)
             /\ stack'[h][Len(stack[h])].tried = Append(f.tried, e.v)
             /\ e.v # f.tried[Len(f.tried)]
             /\ \/ inbox'[e.v] = Append(inbox[e.v], [msg |-> f.msg, via |-> Fanout(f.excl)])
                \/ inbox'[e.v] = inbox[e.v] /\ broken'[e.v]]_vars
\* In one broadcast a send failed and a later entry of the registry received
\* the message.
C14_Witness ==
    \E h \in Conns : \E k \in DOMAIN stack[h] :
        LET f == stack[h][k] IN
        \E i, j \in DOMAIN f.tried :
            /\ i < j
            /\ f.tried[i] \in f.dead
            /\ f.tried[j] \notin f.dead
            /\ \E n \in DOMAIN inbox[f.tried[j]] : inbox[f.tried[j]][n].msg = f.msg

NoRepeat(q) == \A i, j \in DOMAIN q : i # j => q[i] # q[j]
\* C15: a broadcast sends to no websocket twice, in particular not again to
\* one whose send raised, and when it returns no websocket whose send raised
\* in it is in the registry.
C15_FailedOnceThenDeregistered ==
    /\ \A h \in DOMAIN stack : \A k \in DOMAIN stack[h] : NoRepeat(stack[h][k].tried)
    /\ \A r \in returns :
           /\ NoRepeat(r.tried)
           /\ r.dead \cap r.reg = {}
\* A broadcast in which a send raised has returned with another client still
\* registered.
C15_Witness ==
    \E r \in returns :
        /\ r.dead # {}
        /\ r.reg # {}
        /\ Len(r.tried) >= 2

\* C16: the value broadcast returns is the number of websockets its message
\* was delivered to in that call: the sends it made less those that raised,
\* and 0 when it made none.
C16_ReturnsSuccessfulSends ==
    \A r \in returns :
        /\ r.value = r.hits
        /\ r.value = Len(r.tried) - Cardinality(r.dead)
        /\ r.tried = <<>> => r.value = 0
\* A broadcast returned 1 after two sends, one of which raised.
C16_Witness ==
    \E r \in returns :
        /\ r.value = 1
        /\ Len(r.tried) = 2
        /\ Cardinality(r.dead) = 1

\* C17: send_personal_message(message, id) sends to the websocket registered
\* under id and to no other; the call returns, True exactly when the send
\* succeeded; after a failed send that websocket is no longer registered; for
\* an unregistered id it returns False and sends nothing.
C17_SendPersonalMessage ==
    /\ \A h \in Conns : \A i \in DOMAIN inbox[h] :
           inbox[h][i].via = Personal => (h = call.ws /\ call.ok)
    /\ pc[Task] = "done"
       => /\ Task \notin crashed
          /\ call.ret <=> call.ok
          /\ call.ok => \E i \in DOMAIN inbox[call.ws] : inbox[call.ws][i].via = Personal
          /\ (call.ws # None /\ ~call.ok) => call.ws \notin Registered(active_connections)
          /\ call.ws = None => ~call.ret

\* C18: the user_count that a connect broadcasts carries the number of
\* sessions registered immediately after that connection registered.
C18_UserCountAfterChange ==
    \A h \in uc_from : uc_count[h] = reg_count[h]

\* Handler h leaves through its finally clause (accept raised, or the client
\* closed) while its client id is not registered: disconnect of an unknown id.
DisconnectsUnknown(h) ==
    /\ pc[h] \in {"accept", "recv"}
    /\ ~DictHas(active_connections, cid[h])
    /\ (pc'[h] = "done" \/ cont'[h] = "final")
\* C19: disconnect(id) for an id that is not registered changes none of the
\* registry, the metadata, the activity table and the board log, and sends no
\* message to any session.
C19_DisconnectUnknownIsNoOp ==
    [][\A h \in Conns :
          DisconnectsUnknown(h)
          => /\ active_connections' = active_connections
             /\ connection_info' = connection_info
             /\ client_activity' = client_activity
             /\ board_state' = board_state
             /\ \A g \in Conns : inbox'[g] = inbox[g] /\ (broken'[g] => broken[g] \/ g = h)]_vars

\* Handler h's broadcast resumes from a send that returned, and the client id
\* it sent to is in neither the registry nor the activity table any more.
TouchesUnknown(h) ==
    /\ pc[h] = "bcast"
    /\ stack[h][Len(stack[h])].ok
    /\ ~DictHas(active_connections, stack[h][Len(stack[h])].cur)
    /\ ~DictHas(client_activity, stack[h][Len(stack[h])].cur)
    /\ (stack'[h] # stack[h] \/ pc'[h] # pc[h])
\* C20: _update_client_activity(id) for an id that is not registered creates
\* no entry in a registry table.
C20_TouchUnknownIgnored ==
    [][\A h \in DOMAIN stack :
          TouchesUnknown(h)
          => /\ ~DictHas(client_activity', stack[h][Len(stack[h])].cur)
             /\ stack[h][Len(stack[h])].cur \notin DOMAIN connection_info'
             /\ ~DictHas(active_connections', stack[h][Len(stack[h])].cur)]_vars

\* C21: once the server has received and processed a valid frame from a
\* registered client, that client's last activity is no earlier than the time
\* of the receive.
C21_ReceiveUpdatesActivity ==
    \A m \in DOMAIN received :
        LET h == received[m].by IN
        (/\ received[m].error = ""
         /\ ~Broadcasting(h, m)
         /\ h \in live
         /\ DictHas(active_connections, cid[h])
         /\ DictGet(active_connections, cid[h]) = h)
        => /\ DictHas(client_activity, cid[h])
           /\ DictGet(client_activity, cid[h]) >= received[m].at
           /\ connection_info[cid[h]].last_activity >= received[m].at

\* The is_allowed calls for identifier id among the first n calls.
CallsOf(id, n) == {k \in 1..n : verdicts[k].op = "is_allowed" /\ verdicts[k].id = id}
\* The calls for id that were admitted at a time in (lo, hi].
AdmittedIn(id, lo, hi) ==
    {k \in CallsOf(id, Len(verdicts)) :
         verdicts[k].allowed /\ lo < verdicts[k].at /\ verdicts[k].at <= hi}
FirstCallAt(id) == verdicts[Min(CallsOf(id, Len(verdicts)))].at

\* C22: of the calls for an identifier made within window_seconds of its
\* first call, the first max_requests return true and every later one returns
\* false; and no window (t - window_seconds, t] holds more than max_requests
\* admitted calls of one identifier.
C22_AtMostMaxPerWindow ==
    /\ \A id \in Identifiers : \A k \in CallsOf(id, Len(verdicts)) :
           verdicts[k].at < FirstCallAt(id) + window_seconds
           => (verdicts[k].allowed <=> Cardinality(CallsOf(id, k)) <= max_requests)
    /\ \A id \in Identifiers : \A t \in 0..now :
           Cardinality(AdmittedIn(id, t - window_seconds, t)) <= max_requests
\* An identifier was admitted max_requests times and then refused, all within
\* one window.
C22_Witness ==
    \E id \in Identifiers :
        /\ Cardinality(CallsOf(id, Len(verdicts))) = max_requests + 1
        /\ \A k \in CallsOf(id, Len(verdicts)) : verdicts[k].at < FirstCallAt(id) + window_seconds
        /\ Cardinality(AdmittedIn(id, -1, now)) = max_requests
        /\ \E k \in CallsOf(id, Len(verdicts)) : ~verdicts[k].allowed

\* C23: a call at time t is admitted whenever fewer than max_requests admitted
\* calls of its identifier lie strictly after t - window_seconds, however many
\* calls were refused in between; so a refused identifier is admitted again
\* once the window has passed.
C23_AdmittedAgainAfterWindow ==
    \A id \in Identifiers : \A k \in CallsOf(id, Len(verdicts)) :
        Cardinality({j \in AdmittedIn(id, verdicts[k].at - window_seconds, verdicts[k].at) :
                         j < k}) < max_requests
        => verdicts[k].allowed
\* An identifier was admitted max_requests times, refused, and admitted again
\* window_seconds after its first admitted calls.
C23_Witness ==
    \E id \in Identifiers : \E i, j \in CallsOf(id, Len(verdicts)) :
        /\ i < j
        /\ ~verdicts[i].allowed
        /\ verdicts[j].allowed
        /\ Cardinality(AdmittedIn(id, -1, verdicts[i].at)) = max_requests

\* The step is an is_allowed call that returns False.
Refused ==
    /\ Len(verdicts') = Len(verdicts) + 1
    /\ verdicts'[Len(verdicts')].op = "is_allowed"
    /\ ~verdicts'[Len(verdicts')].allowed
Unexpired(history) == {i \in DOMAIN history : history[i] > now - window_seconds}
\* C24: a refused is_allowed(id) appends nothing: it leaves the unexpired
\* timestamps of id as they were, in order, drops only expired ones, and
\* leaves every other identifier's ledger alone.
C24_RefusalOnlyPrunes ==
    [][Refused =>
          LET id == verdicts'[Len(verdicts')].id IN
          /\ DOMAIN requests' = DOMAIN requests
          /\ \A o \in (DOMAIN requests) \ {id} : requests'[o] = requests[o]
          /\ Len(requests'[id]) = Cardinality(Unexpired(requests[id]))
          /\ \A i \in DOMAIN requests'[id] :
                 requests'[id][i] = requests[id][i + Len(requests[id]) - Len(requests'[id])]
          /\ \A i \in DOMAIN requests[id] :
                 i > Len(requests[id]) - Len(requests'[id]) <=> i \in Unexpired(requests[id])]_vars
\* An identifier has been refused while another identifier holds a ledger.
C24_Witness ==
    /\ verdicts # <<>>
    /\ verdicts[Len(verdicts)].op = "is_allowed"
    /\ ~verdicts[Len(verdicts)].allowed
    /\ Cardinality(DOMAIN requests) = 2
    /\ \A id \in DOMAIN requests : requests[id] # <<>>

\* The step is a cleanup_old_entries call.
Cleans ==
    /\ Len(verdicts') = Len(verdicts) + 1
    /\ verdicts'[Len(verdicts')].op = "cleanup"
Recent(history) == {i \in DOMAIN history : history[i] > now - 2 * window_seconds}
\* C25: after cleanup_old_entries no identifier has an empty ledger and no
\* timestamp older than twice the window remains; an identifier with a
\* timestamp newer than that is kept with exactly those timestamps, in order.
C25_CleanupKeepsRecent ==
    [][Cleans =>
          /\ \A id \in DOMAIN requests' :
                 /\ requests'[id] # <<>>
                 /\ \A i \in DOMAIN requests'[id] :
                        requests'[id][i] >= now - 2 * window_seconds
          /\ \A id \in DOMAIN requests :
                 Recent(requests[id]) # {}
                 => /\ id \in DOMAIN requests'
                    /\ Len(requests'[id]) = Cardinality(Recent(requests[id]))
                    /\ \A i \in DOMAIN requests'[id] :
                           /\ i + Len(requests[id]) - Len(requests'[id]) \in Recent(requests[id])
                           /\ requests'[id][i] =
                                  requests[id][i + Len(requests[id]) - Len(requests'[id])]]_vars
\* A cleanup has removed one identifier, whose timestamps were all older than
\* twice the window, and kept another with its timestamps.
C25_Witness ==
    /\ verdicts # <<>>
    /\ verdicts[Len(verdicts)].op = "cleanup"
    /\ Cardinality(DOMAIN requests) = 1
    /\ Cardinality({id \in Identifiers : CallsOf(id, Len(verdicts)) # {}}) = 2
    /\ \A id \in DOMAIN requests : Len(requests[id]) = 2

\* C26: cleanup_inactive_connections(timeout) returns; every client it
\* disconnects is a registered session whose last activity is older than
\* timeout when it is removed; and it returns the number of sessions it
\* evicted.
C26_SweepEvictsIdleOnly ==
    /\ Reaper \notin crashed
    /\ \A i \in DOMAIN sweep.evicted :
           /\ sweep.evicted[i].ws # None
           /\ sweep.evicted[i].idle > sweep.timeout
    /\ sweep.ret >= 0 => sweep.ret = Len(sweep.evicted)

\* Connection h is registered and its last activity is older than the
\* inactivity threshold.
IdleTooLong(h) ==
    /\ h \in live
    /\ DictHas(active_connections, cid[h])
    /\ DictGet(active_connections, cid[h]) = h
    /\ DictHas(client_activity, cid[h])
    /\ now - DictGet(client_activity, cid[h]) > IdleThreshold
\* C27: a registered session that has been idle for longer than the
\* inactivity threshold is eventually evicted, whether or not any client sends
\* another message.
C27_IdleEventuallyEvicted ==
    \A h \in 1..IdleConns : IdleTooLong(h) ~> ~IdleTooLong(h)

AiFailures == Upstream \ {"text", "mermaid", "code"}
\* C28: an ai-assist call never ends in an unhandled exception. When the
\* interpretation fails the caller gets a structured error: the response is an
\* AIAssistResponse with success false, an error and no interpretation, or,
\* when the service is unavailable, an HTTP error. A successful one has success
\* true, the interpretation and no error. The registry and the board log are
\* never touched.
C28_AiFailureIsStructuredError ==
    /\ \A n \in DOMAIN http :
           LET c == http[n] IN
           (c.kind = "ai_assist" /\ c.pc = "done")
           => /\ c.response.model \in {"AIAssistResponse", "HTTPException"}
              /\ c.response.model = "AIAssistResponse"
                 => \/ /\ c.response.success
                       /\ c.response.interpretation = {c.upstream}
                       /\ c.response.error = {}
                       /\ c.upstream \notin AiFailures
                    \/ /\ ~c.response.success
                       /\ c.response.interpretation = {}
                       /\ c.response.error # {}
                       /\ c.upstream \in AiFailures
              /\ c.response.model = "HTTPException" => c.response.status \in {429, 503}
              /\ (c.response.status = 503) => ~ai_client
    /\ active_connections = <<>>
    /\ connection_info = <<>>
    /\ client_activity = <<>>
    /\ board_state = <<>>
\* One call has failed on a timeout and another has returned an interpretation.
C28_Witness ==
    \E m, n \in DOMAIN http :
        /\ http[m].kind = "ai_assist" /\ http[m].pc = "done" /\ http[m].upstream = "timeout"
        /\ ~http[m].response.success
        /\ http[n].kind = "ai_assist" /\ http[n].pc = "done" /\ http[n].response.success

C30_BroadcastToleratesChanges == iter_errors = {}

\* ---------------------------------------------------------------------------
\* C31: once the deregistration of a session has begun (by a disconnect, a
\* failed send or an eviction of the sweep), no later inbound frame of that
\* connection is accepted: the handler processes no valid frame of a
\* connection that was registered and has since been deregistered.
C31_NoFrameAfterDeregistration ==
    [][\A h \in Conns :
          (/\ reg_at[h] # -1 /\ h \notin live
           /\ Len(received') > Len(received) /\ Latest.by = h)
          => Latest.error # ""]_vars

\* ---------------------------------------------------------------------------
\* C32: the messages of one client are processed and broadcast in the order
\* received: what a recipient gets from one sender (the connection whose
\* handler received the frame) is in the order the sender sent it, and the
\* sender's draw and text actions stand in the board log in that order.
C32_PerClientOrder ==
    /\ \A h \in Conns : \A i, j \in DOMAIN inbox[h] :
           (/\ i < j
            /\ inbox[h][i].via.how = "broadcast" /\ inbox[h][i].msg.mid # 0
            /\ inbox[h][j].via.how = "broadcast" /\ inbox[h][j].msg.mid # 0
            /\ received[inbox[h][i].msg.mid].by = received[inbox[h][j].msg.mid].by)
           => inbox[h][i].msg.mid <= inbox[h][j].msg.mid
    /\ \A i, j \in DOMAIN board_state :
           (i < j /\ received[board_state[i].mid].by = received[board_state[j].mid].by)
           => board_state[i].mid < board_state[j].mid
\* A recipient holds two broadcast messages of one sender, whose two actions
\* are in the log, and a frame of another client was received between them.
C32_Witness ==
    \E h \in Conns : \E i, j \in DOMAIN inbox[h] :
        /\ inbox[h][i].via.how = "broadcast" /\ inbox[h][i].msg.mid # 0
        /\ inbox[h][j].via.how = "broadcast"
        /\ inbox[h][i].msg.mid + 1 < inbox[h][j].msg.mid
        /\ received[inbox[h][i].msg.mid].by = received[inbox[h][j].msg.mid].by
        /\ received[inbox[h][i].msg.mid + 1].by # received[inbox[h][i].msg.mid].by
        /\ {inbox[h][i].msg.mid, inbox[h][j].msg.mid} \subseteq LogMids(board_state)

\* ---------------------------------------------------------------------------
\* C33: the failure, the connect or the disconnect of one connection never
\* affects another: a connection whose own transport has not failed and whose
\* client has not closed it is not deregistered once registered, and its
\* handler has not ended (its connect has not failed).
C33_FailureIsolated ==
    \A h \in Conns : (pc[h] = "done" \/ (reg_at[h] # -1 /\ h \notin live)) => broken[h]

\* ---------------------------------------------------------------------------
\* C34: a failure of receive_text, of whatever kind (the handler leaves its
\* await of a frame without one), ends the receive loop and runs
\* disconnect(client_id): the connection is deregistered and its handler is in
\* its finally clause or has ended.
C34_ReceiveFailureDeregisters ==
    [][\A h \in Conns :
          (pc[h] = "recv" /\ pc'[h] # "recv" /\ nframes' = nframes)
          => /\ h \notin live'
             /\ pc'[h] = "done" \/ (pc'[h] = "bcast" /\ cont'[h] = "final")]_vars

\* ---------------------------------------------------------------------------
\* C35: two concurrent admission checks for one identifier (two is_allowed
\* calls at the same time, the second made while the first one's request is in
\* flight) never both return true when one slot remains: when the first is
\* preceded by max_requests - 1 admitted calls within the window, at most one
\* of the two is admitted.
C35_OneSlotOneAdmission ==
    \A id \in Identifiers : \A k, l \in CallsOf(id, Len(verdicts)) :
        (/\ k < l
         /\ verdicts[k].at = verdicts[l].at
         /\ Cardinality({j \in AdmittedIn(id, verdicts[k].at - window_seconds, verdicts[k].at) :
                             j < k}) = max_requests - 1)
        => ~(verdicts[k].allowed /\ verdicts[l].allowed)
\* With one slot left, two requests of one identifier arrived at the same
\* time: the first is waiting for the AI service, the second was answered 429.
C35_Witness ==
    \E id \in Identifiers : \E m, n \in DOMAIN http :
        /\ m < n
        /\ http[m].kind = "ai_assist" /\ http[m].id = id /\ http[m].pc = "await"
        /\ http[n].kind = "ai_assist" /\ http[n].id = id /\ http[n].response.status = 429
        /\ http[m].at = http[n].at
        /\ Cardinality(AdmittedIn(id, http[m].at - window_seconds, http[m].at)) = max_requests
        /\ Cardinality(CallsOf(id, Len(verdicts))) = max_requests + 1

\* ---------------------------------------------------------------------------
\* C36: in every reachable state the three tables of the registry have the
\* same keys: an id is in _active_connections iff it is in _connection_info
\* iff it is in _client_activity.
C36_TablesAgree ==
    /\ DictKeys(active_connections) = DOMAIN connection_info
    /\ DictKeys(active_connections) = DictKeys(client_activity)

\* ---------------------------------------------------------------------------
\* C37: the disconnect of a handler's finally clause removes only the
\* registration that handler made: in the step where handler h reaches its
\* finally, the websocket of another connection whose handler is still
\* running stays registered.
C37_FinalRemovesOwnEntryOnly ==
    [][\A h, g \in Conns :
          (/\ g # h
           /\ pc[h] # "done" /\ cont[h] # "final"
           /\ pc'[h] = "done" \/ cont'[h] = "final"
           /\ g \in Registered(active_connections)
           /\ pc[g] # "done")
          => g \in Registered(active_connections')]_vars

C39_UserCountsConverge ==
    (\A h \in DOMAIN pc : pc[h] \in {"idle", "recv", "done"})
    => \A h \in Registered(active_connections) :
           ~broken[h]
           => LET counts == {i \in DOMAIN inbox[h] : inbox[h][i].msg.type = "user_count"} IN
              /\ counts # {}
              /\ \A i \in counts :
                     (\A j \in counts : j <= i)
                     => inbox[h][i].msg.count = DictLen(active_connections)

\* ---------------------------------------------------------------------------
\* C40: cleanup_old_entries does not change what is_allowed answers: from the
\* ledger a cleanup leaves and from the ledger it found, the same is_allowed
\* calls (any identifiers, at the time of the cleanup or later, in time
\* order) return the same results.
C40_CleanupIsNeutral ==
    [][Cleans =>
          \A id1, id2 \in Identifiers : \A t1, t2 \in now..(now + window_seconds + 1) :
              t1 <= t2
              => LET kept1 == is_allowed(requests, id1, t1)
                     kept2 == is_allowed(kept1.requests, id2, t2)
                     cleaned1 == is_allowed(requests', id1, t1)
                     cleaned2 == is_allowed(cleaned1.requests, id2, t2) IN
                 /\ kept1.allowed = cleaned1.allowed
                 /\ kept2.allowed = cleaned2.allowed]_vars
\* A cleanup ran when an identifier had admitted calls older than twice the
\* window, and a later call of that identifier was admitted.
C40_Witness ==
    \E id \in Identifiers : \E k \in DOMAIN verdicts :
        /\ verdicts[k].op = "cleanup"
        /\ AdmittedIn(id, -1, verdicts[k].at - 2 * window_seconds) # {}
        /\ \E l \in CallsOf(id, Len(verdicts)) : l > k /\ verdicts[l].allowed

====
